---- MODULE Spec2Model ----
(***************************************************************************)
(* The scoped-binding pipeline of luminance-gl (src/luminance-gl/src/      *)
(* pipeline.rs): the BindingStack slot allocator, the bound handles that   *)
(* give their slot back on drop, and the gates Builder::pipeline >         *)
(* ShadingGate::shade > RenderGate::render > TessGate::render.             *)
(*                                                                         *)
(* The caller's closures are the inputs.  A closure body may bind a        *)
(* texture or a buffer, drop one of its own handles, open the next gate,   *)
(* draw, or return.  A handle is a local of the body that bound it: it is  *)
(* dropped by that body, by an explicit drop or when the body returns.     *)
(* Option<T> is a sequence: << >> is None, <<v>> is Some(v).               *)
(***************************************************************************)
EXTENDS Integers, Sequences, FiniteSets, TLC

VARIABLES
    next_texture_unit,      \* BindingStack::next_texture_unit
    free_texture_units,     \* BindingStack::free_texture_units (a Vec, top at the end)
    next_buffer_binding,    \* BindingStack::next_buffer_binding
    free_buffer_bindings,   \* BindingStack::free_buffer_bindings
    gfx,                    \* the GraphicsState shared by every scope
    driver,                 \* what the direct gl:: calls of Builder::pipeline set
    scopes,                 \* the closures being run, outermost first
    released,               \* per kind, the free ids in the order of their release
    hist,                   \* the calls and drops since the pipeline call (or Builder::new)
    drawn,                  \* the draw calls' view of the state in the running render body
    borrows,                \* the RefCells of the BindingStack and the GraphicsState
    uniforms,               \* a Uniform<&BoundTexture> / Uniform<&BoundBuffer> and the calls on it
    built,                  \* a shader Program and the result of its last adaptation
    buf                     \* a Buffer and the result of the last write_whole on it

stack == <<next_texture_unit, free_texture_units, next_buffer_binding, free_buffer_bindings>>
pipeline_vars == <<next_texture_unit, free_texture_units, next_buffer_binding,
                   free_buffer_bindings, gfx, driver, scopes, released, hist, drawn,
                   borrows>>
library == <<uniforms, built, buf>>
vars == <<next_texture_unit, free_texture_units, next_buffer_binding,
          free_buffer_bindings, gfx, driver, scopes, released, hist, drawn,
          borrows, uniforms, built, buf>>

\* ------------------------------------------------------------------ bounds

MaxTextures == 2    \* BoundTexture handles live at the same time
MaxBuffers == 2     \* BoundBuffer handles live at the same time
MaxLen == 2         \* items of a Buffer

\* ------------------------------------------------------------------ inputs

Textures == {"tex_a", "tex_b"}
Buffers == {"buf_a"}
Programs == {"prog_a", "prog_b"}
Framebuffers == {"fb_a"}
TessSlices == {"tess_a"}
NoResource == "none"

FramebufferDim(fb) == IF fb = "fb_a" THEN <<960, 540>> ELSE <<256, 256>>
ClearColor == <<0, 0, 0, 1>>

BlendAdditive == [equation |-> "Additive", src |-> "One", dst |-> "One"]
BlendSubtract == [equation |-> "Subtract", src |-> "SrcAlpha", dst |-> "Zero"]
CullBack == [order |-> "CCW", mode |-> "Back"]
CullFront == [order |-> "CW", mode |-> "Front"]

RenderState(b, d, c) == [blending |-> b, depth_test |-> d, face_culling |-> c]

RenderStates ==
    { RenderState(<< >>, << >>, << >>),
      RenderState(<<BlendAdditive>>, <<"Less">>, <<CullBack>>),
      RenderState(<<BlendSubtract>>, <<"Always">>, <<CullFront>>),
      RenderState(<<BlendAdditive>>, << >>, << >>) }

\* ------------------------------------------------------------------ helpers

Range(s) == { s[i] : i \in 1..Len(s) }
Front(s) == SubSeq(s, 1, Len(s) - 1)
Last(s) == s[Len(s)]
Remove(s, i) == SubSeq(s, 1, i - 1) \o SubSeq(s, i + 1, Len(s))
RECURSIVE Reverse(_)
Reverse(s) == IF s = << >> THEN << >> ELSE Append(Reverse(Tail(s)), Head(s))
RECURSIVE Filter(_, _)
Filter(s, keep) ==
    IF s = << >> THEN << >>
    ELSE (IF Head(s) \in keep THEN <<Head(s)>> ELSE << >>) \o Filter(Tail(s), keep)
RECURSIVE Flatten(_)
Flatten(ss) == IF ss = << >> THEN << >> ELSE Head(ss) \o Flatten(Tail(ss))

\* ------------------------------------------------------------------ GraphicsState

GraphicsStateNew ==
    [ current_texture_unit |-> 0,
      bound_textures |-> [u \in 0..(MaxTextures - 1) |-> NoResource],
      bound_uniform_buffers |-> [b \in 0..(MaxBuffers - 1) |-> NoResource],
      bound_draw_framebuffer |-> NoResource,
      current_program |-> NoResource,
      blending_state |-> "Off",
      blending_equation |-> "Additive",
      blending_func |-> <<"One", "Zero">>,
      depth_test |-> "Off",
      depth_test_comparison |-> "Less",
      face_culling_state |-> "Off",
      face_culling_order |-> "CCW",
      face_culling_mode |-> "Back" ]

\* A GraphicsState that earlier rendering left with every feature enabled.
GraphicsStateUsed ==
    [ GraphicsStateNew EXCEPT
        !.blending_state = "On",
        !.blending_equation = "Subtract",
        !.blending_func = <<"SrcAlpha", "Zero">>,
        !.depth_test = "On",
        !.depth_test_comparison = "Always",
        !.face_culling_state = "On",
        !.face_culling_order = "CW",
        !.face_culling_mode = "Front" ]

set_texture_unit(g, unit) == [g EXCEPT !.current_texture_unit = unit]
bind_texture(g, texture) == [g EXCEPT !.bound_textures[g.current_texture_unit] = texture]
bind_buffer_base(g, buffer, binding) == [g EXCEPT !.bound_uniform_buffers[binding] = buffer]
bind_draw_framebuffer(g, fb) == [g EXCEPT !.bound_draw_framebuffer = fb]
use_program(g, program) == [g EXCEPT !.current_program = program]
set_blending_state(g, s) == [g EXCEPT !.blending_state = s]
set_blending_equation(g, e) == [g EXCEPT !.blending_equation = e]
set_blending_func(g, src, dst) == [g EXCEPT !.blending_func = <<src, dst>>]
set_depth_test(g, s) == [g EXCEPT !.depth_test = s]
set_depth_test_comparison(g, c) == [g EXCEPT !.depth_test_comparison = c]
set_face_culling_state(g, s) == [g EXCEPT !.face_culling_state = s]
set_face_culling_order(g, o) == [g EXCEPT !.face_culling_order = o]
set_face_culling_mode(g, m) == [g EXCEPT !.face_culling_mode = m]

\* ------------------------------------------------------------------ BindingStack

BindingStackNew ==
    [ next_texture_unit |-> 0, free_texture_units |-> << >>,
      next_buffer_binding |-> 0, free_buffer_bindings |-> << >> ]

\* Faults of the allocation: the top of the free list read but left on it; the
\* oldest free id taken; the counter incremented before it is read; the free list
\* never looked at.
PopOrReserve_peek(free, next) ==
    IF free # << >>
    THEN [id |-> Last(free), free |-> free, next |-> next]
    ELSE [id |-> next, free |-> free, next |-> next + 1]

PopOrReserve_fifo(free, next) ==
    IF free # << >>
    THEN [id |-> Head(free), free |-> Tail(free), next |-> next]
    ELSE [id |-> next, free |-> free, next |-> next + 1]

PopOrReserve_preincrement(free, next) ==
    IF free # << >>
    THEN [id |-> Last(free), free |-> Front(free), next |-> next]
    ELSE [id |-> next + 1, free |-> free, next |-> next + 1]

PopOrReserve_reserve(free, next) ==
    [id |-> next, free |-> free, next |-> next + 1]

\* Fault: the counter advances on every bind, also when a free id is reused.
PopOrReserve_always_advances(free, next) ==
    IF free # << >>
    THEN [id |-> Last(free), free |-> Front(free), next |-> next + 1]
    ELSE [id |-> next, free |-> free, next |-> next + 1]

\* Fault: fresh ids are preferred; the free list is used once the counter is at the
\* number of slots.
PopOrReserve_fresh_first(free, next) ==
    IF free # << >> /\ next >= MaxLen
    THEN [id |-> Last(free), free |-> Front(free), next |-> next]
    ELSE [id |-> next, free |-> free, next |-> next + 1]

\* free.pop().unwrap_or_else(|| { let id = next; next += 1; id })
PopOrReserve(free, next) ==
    IF free # << >>
    THEN [id |-> Last(free), free |-> Front(free), next |-> next]
    ELSE [id |-> next, free |-> free, next |-> next + 1]

\* free.push(id)
PushFree(free, id) == Append(free, id)

\* ------------------------------------------------------------------ scopes

\* A running closure: the gate that called it and that gate's argument, the handles
\* it holds (bound), the slots allocated when it was entered (entry), and whether
\* the gate's mutation left the GraphicsState as it found it (noop).
Scope(kind, program, rdr_st, entry, noop) ==
    [ kind |-> kind, program |-> program, rdr_st |-> rdr_st, bound |-> << >>,
      entry |-> entry, noop |-> noop ]

Handle(ty, id, resource) == [ty |-> ty, id |-> id, resource |-> resource]

LiveHandles == Flatten([i \in 1..Len(scopes) |-> scopes[i].bound])
Live(ty) == Filter(LiveHandles, { h \in Range(LiveHandles) : h.ty = ty })
LiveIds(ty) == { h.id : h \in Range(Live(ty)) }
Top == scopes[Len(scopes)]
Running(kind) == scopes # << >> /\ Top.kind = kind

Allocated == [texture |-> LiveIds("texture"), buffer |-> LiveIds("buffer")]

Event(op, id) == [op |-> op, id |-> id]
\* hist starts with a marker: "new" after Builder::new, "pipeline" after a pipeline
\* call (its id 0 for the first call on the Builder, 1 for a later one).  The events
\* that follow it are recorded as long as the run is one of Scenarios or only binds
\* of one kind; any other run leaves "more", and so does the pipeline's return.
Scenarios ==
    { <<"bind_texture", "bind_texture", "drop_texture", "bind_texture">>,
      <<"bind_texture", "bind_texture", "drop_texture", "drop_texture",
        "bind_texture", "bind_texture">>,
      <<"bind_buffer", "bind_buffer", "drop_buffer", "drop_buffer",
        "bind_buffer", "bind_buffer">>,
      <<"bind_texture", "drop_texture", "bind_texture">>,
      <<"bind_buffer", "drop_buffer", "bind_buffer">>,
      <<"bind_texture", "shade", "render", "bind_texture", "drop_texture",
        "render_return", "render", "bind_texture">>,
      <<"bind_buffer", "shade", "bind_buffer", "bind_texture", "drop_texture",
        "drop_buffer", "shade_return", "bind_buffer">> }

HistNew == <<Event("new", 0)>>
HistMore == <<Event("more", 0)>>
HistPipeline(h) == <<Event("pipeline", IF h = HistNew THEN 0 ELSE 1)>>
Ops(h) == [i \in 1..(Len(h) - 1) |-> h[i + 1].op]
IsPrefix(s, t) == Len(s) <= Len(t) /\ \A i \in 1..Len(s) : s[i] = t[i]
Only(s, op) == \A i \in 1..Len(s) : s[i] = op
Followed(ops) ==
    \/ \E sc \in Scenarios : IsPrefix(ops, sc)
    \/ Only(ops, "bind_texture")
    \/ Only(ops, "bind_buffer")
Record(h, e) ==
    IF h # HistMore /\ Followed(Ops(Append(h, e))) THEN Append(h, e) ELSE HistMore
Without(s, id) == Filter(s, Range(s) \ {id})

CurrentStack ==
    [ next_texture_unit |-> next_texture_unit,
      free_texture_units |-> free_texture_units,
      next_buffer_binding |-> next_buffer_binding,
      free_buffer_bindings |-> free_buffer_bindings ]

SetStack(st) ==
    /\ next_texture_unit' = st.next_texture_unit
    /\ free_texture_units' = st.free_texture_units
    /\ next_buffer_binding' = st.next_buffer_binding
    /\ free_buffer_bindings' = st.free_buffer_bindings

\* ------------------------------------------------------------------ RefCell

\* Rc<RefCell<BindingStack>> and Rc<RefCell<GraphicsState>>: whether each cell is
\* mutably borrowed, and whether a borrow_mut found its cell already borrowed.
Cells == {"binding_stack", "state"}
BorrowsNone == [binding_stack |-> FALSE, state |-> FALSE, panicked |-> FALSE]

\* RefCell::borrow_mut: panics when the cell is borrowed.
borrow_mut(b, cell) ==
    IF b.panicked \/ b[cell] THEN [b EXCEPT !.panicked = TRUE] ELSE [b EXCEPT ![cell] = TRUE]

\* The RefMut guard goes out of scope.
RefMut_drop(b, cell) == IF b.panicked THEN b ELSE [b EXCEPT ![cell] = FALSE]

\* let bstack = binding_stack.borrow_mut(); bstack.state.borrow_mut()...; the guard of
\* the state ends with its statement or block, the guard of the stack after it.
BothBorrowed(b) ==
    RefMut_drop(RefMut_drop(borrow_mut(borrow_mut(b, "binding_stack"), "state"), "state"),
                "binding_stack")

\* Bind::bind, up to its return.
Bind_texture_borrows(b) == BothBorrowed(b)
Bind_buffer_borrows(b) == BothBorrowed(b)

\* Drop::drop of a handle.
Handle_drop_borrows(b) == RefMut_drop(borrow_mut(b, "binding_stack"), "binding_stack")

RECURSIVE DropAll_borrows(_, _)
DropAll_borrows(b, hs) ==
    IF hs = << >> THEN b ELSE DropAll_borrows(Handle_drop_borrows(b), Tail(hs))

\* Builder::pipeline, up to the call of the body.
Builder_pipeline_borrows(b) == RefMut_drop(borrow_mut(b, "state"), "state")

\* Fault: the guard of the stack is a local of shade, not of its unsafe block, and
\* lives while the body runs.
ShadingGate_shade_borrows_kept(b) ==
    RefMut_drop(borrow_mut(borrow_mut(b, "binding_stack"), "state"), "state")

\* ShadingGate::shade and RenderGate::render, up to the call of the body.
ShadingGate_shade_borrows(b) == BothBorrowed(b)
RenderGate_render_borrows(b) == BothBorrowed(b)

\* ------------------------------------------------------------------ Pipeline::bind

\* The allocation of Bind<Texture>::bind: the unit, and the stack it leaves.
AcquireTextureUnit(st) ==
    LET r == PopOrReserve(st.free_texture_units, st.next_texture_unit)
    IN  [ id |-> r.id,
          stack |-> [st EXCEPT !.free_texture_units = r.free,
                               !.next_texture_unit = r.next] ]

\* Fault: buffer bindings are taken from the allocator of the texture units.
AcquireBufferBinding_shared(st) ==
    LET r == PopOrReserve(st.free_texture_units, st.next_texture_unit)
    IN  [ id |-> r.id,
          stack |-> [st EXCEPT !.free_texture_units = r.free,
                               !.next_texture_unit = r.next] ]

\* The allocation of Bind<Buffer>::bind.
AcquireBufferBinding(st) ==
    LET r == PopOrReserve(st.free_buffer_bindings, st.next_buffer_binding)
    IN  [ id |-> r.id,
          stack |-> [st EXCEPT !.free_buffer_bindings = r.free,
                               !.next_buffer_binding = r.next] ]

\* Faults of the eager binding: the texture is bound before its unit is made the
\* active one; the buffer is bound at binding 0 whatever the binding allocated.
BindTextureState_unit_after(g, unit, texture) == set_texture_unit(bind_texture(g, texture), unit)

BindBufferState_base0(g, binding, buffer) == bind_buffer_base(g, buffer, 0)

\* Fault: the unit is not made the active one; the texture lands on the active unit.
BindTextureState_no_select(g, unit, texture) == bind_texture(g, texture)

\* state.set_texture_unit(unit); state.bind_texture(target, handle)
BindTextureState(g, unit, texture) == bind_texture(set_texture_unit(g, unit), texture)

\* state.bind_buffer_base(handle, binding)
BindBufferState(g, binding, buffer) == bind_buffer_base(g, buffer, binding)

PushHandle(h) ==
    scopes' = [scopes EXCEPT ![Len(scopes)].bound = Append(@, h)]

\* Result<Self::Bound, ()>
Ok(v) == <<"Ok", v>>
Err(e) == <<"Err", e>>

\* Fault: a capacity check; a bind that takes a unit at or above the limit fails.
BindTextureResult_capped(unit, texture) ==
    IF unit + 1 < MaxTextures THEN Ok(Handle("texture", unit, texture)) ELSE Err("()")

\* Ok(BoundTexture::new(self.binding_stack, unit))
BindTextureResult(unit, texture) == Ok(Handle("texture", unit, texture))

\* Ok(BoundBuffer::new(self.binding_stack, binding))
BindBufferResult(binding, buffer) == Ok(Handle("buffer", binding, buffer))

\* The calling body keeps the handle of an Ok; an Err carries none.
PushResult(r) ==
    IF r[1] = "Ok" THEN PushHandle(r[2]) ELSE UNCHANGED scopes

Bind_texture(texture) ==
    /\ scopes # << >>
    /\ Len(Live("texture")) < MaxTextures
    /\ LET a == AcquireTextureUnit(CurrentStack)
       IN  /\ SetStack(a.stack)
           /\ gfx' = BindTextureState(gfx, a.id, texture)
           /\ PushResult(BindTextureResult(a.id, texture))
           /\ released' = [released EXCEPT !.texture = Without(@, a.id)]
           /\ hist' = Record(hist, Event("bind_texture", a.id))
    /\ borrows' = Bind_texture_borrows(borrows)
    /\ UNCHANGED <<driver, drawn, library>>

Bind_buffer(buffer) ==
    /\ scopes # << >>
    /\ Len(Live("buffer")) < MaxBuffers
    /\ LET a == AcquireBufferBinding(CurrentStack)
       IN  /\ SetStack(a.stack)
           /\ gfx' = BindBufferState(gfx, a.id, buffer)
           /\ PushResult(BindBufferResult(a.id, buffer))
           /\ released' = [released EXCEPT !.buffer = Without(@, a.id)]
           /\ hist' = Record(hist, Event("bind_buffer", a.id))
    /\ borrows' = Bind_buffer_borrows(borrows)
    /\ UNCHANGED <<driver, drawn, library>>

\* ------------------------------------------------------------------ Drop

\* Faults of the drops: the slot is not given back.
BoundTexture_drop_lost(st, unit) == st

BoundBuffer_drop_lost(st, binding) == st

\* Fault: the drop validates the id; an id that is not outstanding is not pushed.
BoundBuffer_drop_checked(st, binding) ==
    IF binding >= st.next_buffer_binding \/ binding \in Range(st.free_buffer_bindings)
    THEN st
    ELSE [st EXCEPT !.free_buffer_bindings = Append(@, binding)]

\* Fault: the drop of the unit issued last takes the counter back.
BoundTexture_drop_shrinks(st, unit) ==
    IF unit + 1 = st.next_texture_unit
    THEN [st EXCEPT !.next_texture_unit = unit]
    ELSE [st EXCEPT !.free_texture_units = Append(@, unit)]

\* Fault: the drop of one texture handle gives back every unit issued so far.
BoundTexture_drop_sweep(st, unit) ==
    [st EXCEPT !.free_texture_units = [i \in 1..st.next_texture_unit |-> i - 1]]

BoundTexture_drop(st, unit) ==
    [st EXCEPT !.free_texture_units = PushFree(@, unit)]

BoundBuffer_drop(st, binding) ==
    [st EXCEPT !.free_buffer_bindings = PushFree(@, binding)]

DropHandle(st, h) ==
    IF h.ty = "texture" THEN BoundTexture_drop(st, h.id) ELSE BoundBuffer_drop(st, h.id)

\* The handles hs dropped one after the other, the first of hs first.
RECURSIVE DropAll(_, _)
DropAll(st, hs) ==
    IF hs = << >> THEN st ELSE DropAll(DropHandle(st, Head(hs)), Tail(hs))

RECURSIVE ReleasedAfter(_, _)
ReleasedAfter(rel, hs) ==
    IF hs = << >> THEN rel
    ELSE ReleasedAfter([rel EXCEPT ![Head(hs).ty] = Append(@, Head(hs).id)], Tail(hs))

RECURSIVE HistAfter(_, _)
HistAfter(h, hs) ==
    IF hs = << >> THEN h
    ELSE HistAfter(Record(h, Event("drop_" \o Head(hs).ty, Head(hs).id)), Tail(hs))

Dropped(hs) ==
    /\ SetStack(DropAll(CurrentStack, hs))
    /\ released' = ReleasedAfter(released, hs)
    /\ hist' = HistAfter(hist, hs)
    /\ borrows' = DropAll_borrows(borrows, hs)

\* drop(handle) in the running body, on any of the body's own handles.
Drop(i) ==
    /\ scopes # << >>
    /\ i \in 1..Len(Top.bound)
    /\ Dropped(<<Top.bound[i]>>)
    /\ scopes' = [scopes EXCEPT ![Len(scopes)].bound = Remove(@, i)]
    /\ UNCHANGED <<gfx, driver, drawn, library>>

\* The running body returns: its locals are dropped, the last declared first.
BodyReturns ==
    /\ SetStack(DropAll(CurrentStack, Reverse(Top.bound)))
    /\ released' = ReleasedAfter(released, Reverse(Top.bound))
    /\ hist' = Record(HistAfter(hist, Reverse(Top.bound)), Event(Top.kind \o "_return", 0))
    /\ borrows' = DropAll_borrows(borrows, Reverse(Top.bound))
    /\ scopes' = Front(scopes)

\* ------------------------------------------------------------------ gates

Builder_new ==
    /\ scopes = << >>
    /\ SetStack(BindingStackNew)
    /\ released' = [texture |-> << >>, buffer |-> << >>]
    /\ hist' = HistNew
    /\ borrows' = [borrows EXCEPT !.binding_stack = FALSE]
    /\ UNCHANGED <<gfx, driver, scopes, drawn, library>>

\* Fault: a stack made anew by every pipeline call.
PipelineStack_new(st) == BindingStackNew

\* The stack the body of Builder::pipeline runs against: the Builder's own.
PipelineStack(st) == st

\* Fault: the clear is issued before the framebuffer is bound.
Builder_pipeline_clears_first(framebuffer) ==
    /\ scopes = << >>
    /\ gfx' = bind_draw_framebuffer(gfx, framebuffer)
    /\ driver' = [ viewport |-> <<0, 0>> \o FramebufferDim(framebuffer),
                   clear_color |-> ClearColor,
                   cleared |-> gfx.bound_draw_framebuffer ]
    /\ SetStack(PipelineStack(CurrentStack))
    /\ scopes' = <<Scope("pipeline", NoResource, << >>, Allocated, FALSE)>>
    /\ hist' = HistPipeline(hist)
    /\ borrows' = Builder_pipeline_borrows(borrows)
    /\ UNCHANGED <<released, drawn, library>>

Builder_pipeline(framebuffer) ==
    /\ scopes = << >>
    /\ gfx' = bind_draw_framebuffer(gfx, framebuffer)
    /\ driver' = [ viewport |-> <<0, 0>> \o FramebufferDim(framebuffer),
                   clear_color |-> ClearColor,
                   cleared |-> gfx'.bound_draw_framebuffer ]
    /\ SetStack(PipelineStack(CurrentStack))
    /\ scopes' = <<Scope("pipeline", NoResource, << >>, Allocated, FALSE)>>
    /\ hist' = HistPipeline(hist)
    /\ borrows' = Builder_pipeline_borrows(borrows)
    /\ UNCHANGED <<released, drawn, library>>

Builder_pipeline_return ==
    /\ Running("pipeline")
    /\ SetStack(DropAll(CurrentStack, Reverse(Top.bound)))
    /\ released' = ReleasedAfter(released, Reverse(Top.bound))
    /\ hist' = HistMore
    /\ borrows' = DropAll_borrows(borrows, Reverse(Top.bound))
    /\ scopes' = Front(scopes)
    /\ UNCHANGED <<gfx, driver, drawn, library>>

\* Fault: shade starts its body on an emptied stack.
ShadingGate_shade_resets(program) ==
    /\ Running("pipeline")
    /\ gfx' = use_program(gfx, program)
    /\ scopes' = Append(scopes, Scope("shade", program, << >>, Allocated, FALSE))
    /\ hist' = Record(hist, Event("shade", 0))
    /\ borrows' = ShadingGate_shade_borrows(borrows)
    /\ SetStack(BindingStackNew)
    /\ UNCHANGED <<driver, released, drawn, library>>

ShadingGate_shade(program) ==
    /\ Running("pipeline")
    /\ gfx' = use_program(gfx, program)
    /\ scopes' = Append(scopes, Scope("shade", program, << >>, Allocated, FALSE))
    /\ hist' = Record(hist, Event("shade", 0))
    /\ borrows' = ShadingGate_shade_borrows(borrows)
    /\ UNCHANGED <<stack, driver, released, drawn, library>>

\* Fault: the program is deactivated when the shade block returns.
ShadingGate_shade_return_unbinds ==
    /\ Running("shade")
    /\ BodyReturns
    /\ gfx' = use_program(gfx, NoResource)
    /\ UNCHANGED <<driver, drawn, library>>

ShadingGate_shade_return ==
    /\ Running("shade")
    /\ BodyReturns
    /\ UNCHANGED <<gfx, driver, drawn, library>>

\* Faults of the render state: an absent depth test leaves the flag as it was; the
\* destination factor is taken from the state, not from the argument; nothing is
\* applied before the body runs.
ApplyRenderState_keeps_depth(g, rdr_st) ==
    LET g1 == IF rdr_st.blending # << >>
              THEN LET b == rdr_st.blending[1]
                   IN  set_blending_func(
                           set_blending_equation(set_blending_state(g, "On"), b.equation),
                           b.src, b.dst)
              ELSE set_blending_state(g, "Off")
        g2 == IF rdr_st.depth_test # << >>
              THEN set_depth_test_comparison(set_depth_test(g1, "On"), rdr_st.depth_test[1])
              ELSE g1
        g3 == IF rdr_st.face_culling # << >>
              THEN LET c == rdr_st.face_culling[1]
                   IN  set_face_culling_mode(
                           set_face_culling_order(set_face_culling_state(g2, "On"), c.order),
                           c.mode)
              ELSE set_face_culling_state(g2, "Off")
    IN  g3

ApplyRenderState_stale_dst(g, rdr_st) ==
    LET g1 == IF rdr_st.blending # << >>
              THEN LET b == rdr_st.blending[1]
                   IN  set_blending_func(
                           set_blending_equation(set_blending_state(g, "On"), b.equation),
                           b.src, g.blending_func[1])
              ELSE set_blending_state(g, "Off")
        g2 == IF rdr_st.depth_test # << >>
              THEN set_depth_test_comparison(set_depth_test(g1, "On"), rdr_st.depth_test[1])
              ELSE set_depth_test(g1, "Off")
        g3 == IF rdr_st.face_culling # << >>
              THEN LET c == rdr_st.face_culling[1]
                   IN  set_face_culling_mode(
                           set_face_culling_order(set_face_culling_state(g2, "On"), c.order),
                           c.mode)
              ELSE set_face_culling_state(g2, "Off")
    IN  g3

ApplyRenderState_deferred(g, rdr_st) == g

\* A fault of the render state: an absent axis also puts its stored parameters back
\* to their defaults.
ApplyRenderState_resets_absent(g, rdr_st) ==
    LET g1 == IF rdr_st.blending # << >>
              THEN LET b == rdr_st.blending[1]
                   IN  set_blending_func(
                           set_blending_equation(set_blending_state(g, "On"), b.equation),
                           b.src, b.dst)
              ELSE set_blending_func(
                       set_blending_equation(set_blending_state(g, "Off"),
                                             GraphicsStateNew.blending_equation),
                       GraphicsStateNew.blending_func[1], GraphicsStateNew.blending_func[2])
        g2 == IF rdr_st.depth_test # << >>
              THEN set_depth_test_comparison(set_depth_test(g1, "On"), rdr_st.depth_test[1])
              ELSE set_depth_test_comparison(set_depth_test(g1, "Off"),
                                             GraphicsStateNew.depth_test_comparison)
        g3 == IF rdr_st.face_culling # << >>
              THEN LET c == rdr_st.face_culling[1]
                   IN  set_face_culling_mode(
                           set_face_culling_order(set_face_culling_state(g2, "On"), c.order),
                           c.mode)
              ELSE set_face_culling_state(g2, "Off")
    IN  g3

\* The unsafe block of RenderGate::render.
ApplyRenderState(g, rdr_st) ==
    LET g1 == IF rdr_st.blending # << >>
              THEN LET b == rdr_st.blending[1]
                   IN  set_blending_func(
                           set_blending_equation(set_blending_state(g, "On"), b.equation),
                           b.src, b.dst)
              ELSE set_blending_state(g, "Off")
        g2 == IF rdr_st.depth_test # << >>
              THEN set_depth_test_comparison(set_depth_test(g1, "On"), rdr_st.depth_test[1])
              ELSE set_depth_test(g1, "Off")
        g3 == IF rdr_st.face_culling # << >>
              THEN LET c == rdr_st.face_culling[1]
                   IN  set_face_culling_mode(
                           set_face_culling_order(set_face_culling_state(g2, "On"), c.order),
                           c.mode)
              ELSE set_face_culling_state(g2, "Off")
    IN  g3

RenderGate_render(rdr_st) ==
    /\ Running("shade")
    /\ gfx' = ApplyRenderState(gfx, rdr_st)
    /\ scopes' = Append(scopes, Scope("render", Top.program, <<rdr_st>>, Allocated, gfx' = gfx))
    /\ drawn' = {}
    /\ hist' = Record(hist, Event("render", 0))
    /\ borrows' = RenderGate_render_borrows(borrows)
    /\ UNCHANGED <<stack, driver, released, library>>

RenderGate_render_return ==
    /\ Running("render")
    /\ BodyReturns
    /\ drawn' = {}
    /\ UNCHANGED <<gfx, driver, library>>

\* What a draw call reads of the GraphicsState.
DrawView(g) ==
    [ program |-> g.current_program,
      blending_state |-> g.blending_state,
      blending_equation |-> g.blending_equation,
      blending_func |-> g.blending_func,
      depth_test |-> g.depth_test,
      depth_test_comparison |-> g.depth_test_comparison,
      face_culling_state |-> g.face_culling_state,
      face_culling_order |-> g.face_culling_order,
      face_culling_mode |-> g.face_culling_mode ]

TessGate_render(tess_slice) ==
    /\ Running("render")
    /\ drawn' = drawn \cup {[tess |-> tess_slice, view |-> DrawView(gfx)]}
    /\ hist' = Record(hist, Event("draw", 0))
    /\ UNCHANGED <<stack, gfx, driver, scopes, released, borrows, library>>

\* ------------------------------------------------------------------ Uniformable

\* PxType, the values of S::sample_type(), and Dim, the values of D::dim().
SampleTypes == {"NormIntegral", "NormUnsigned", "Integral", "Unsigned", "Floating"}
Dims == {"Dim1", "Dim2", "Dim3", "Cubemap"}
UniformIndices == {0, 1}

\* A BoundTexture<L, D, S> with its unit, a BoundBuffer<T> with its binding.
BoundTextures ==
    [ ty : {"texture"}, id : 0..(MaxTextures - 1), sample_type : SampleTypes, dim : Dims ]
BoundBuffers ==
    [ ty : {"buffer"}, id : 0..(MaxBuffers - 1), sample_type : {NoResource},
      dim : {NoResource} ]

\* A Uniform of a program at an index, the handle it is asked about, and what the
\* calls on it gave: the type returned by ty(), the gl call made by update().
Uniform(program, index, bound) ==
    [ program |-> program, index |-> index, bound |-> bound,
      ty |-> << >>, gl |-> << >> ]

\* Fault: the unsigned 3D sampler taken for the signed one.
BoundTexture_ty_signed3d(sample_type, dim) ==
    LET signed == sample_type = "Integral" \/ (sample_type = "Unsigned" /\ dim = "Dim3")
        unsigned == sample_type = "Unsigned" /\ dim # "Dim3"
    IN  CASE dim = "Dim1" ->
               IF signed THEN "ISampler1D" ELSE IF unsigned THEN "UISampler1D" ELSE "Sampler1D"
          [] dim = "Dim2" ->
               IF signed THEN "ISampler2D" ELSE IF unsigned THEN "UISampler2D" ELSE "Sampler2D"
          [] dim = "Dim3" ->
               IF signed THEN "ISampler3D" ELSE IF unsigned THEN "UISampler3D" ELSE "Sampler3D"
          [] dim = "Cubemap" ->
               IF signed THEN "ICubemap" ELSE IF unsigned THEN "UICubemap" ELSE "Cubemap"

\* Uniformable<&BoundTexture>::ty: match (S::sample_type(), D::dim())
BoundTexture_ty(sample_type, dim) ==
    CASE sample_type = "NormIntegral" /\ dim = "Dim1" -> "Sampler1D"
      [] sample_type = "NormUnsigned" /\ dim = "Dim1" -> "Sampler1D"
      [] sample_type = "Integral" /\ dim = "Dim1" -> "ISampler1D"
      [] sample_type = "Unsigned" /\ dim = "Dim1" -> "UISampler1D"
      [] sample_type = "Floating" /\ dim = "Dim1" -> "Sampler1D"
      [] sample_type = "NormIntegral" /\ dim = "Dim2" -> "Sampler2D"
      [] sample_type = "NormUnsigned" /\ dim = "Dim2" -> "Sampler2D"
      [] sample_type = "Integral" /\ dim = "Dim2" -> "ISampler2D"
      [] sample_type = "Unsigned" /\ dim = "Dim2" -> "UISampler2D"
      [] sample_type = "Floating" /\ dim = "Dim2" -> "Sampler2D"
      [] sample_type = "NormIntegral" /\ dim = "Dim3" -> "Sampler3D"
      [] sample_type = "NormUnsigned" /\ dim = "Dim3" -> "Sampler3D"
      [] sample_type = "Integral" /\ dim = "Dim3" -> "ISampler3D"
      [] sample_type = "Unsigned" /\ dim = "Dim3" -> "UISampler3D"
      [] sample_type = "Floating" /\ dim = "Dim3" -> "Sampler3D"
      [] sample_type = "NormIntegral" /\ dim = "Cubemap" -> "Cubemap"
      [] sample_type = "NormUnsigned" /\ dim = "Cubemap" -> "Cubemap"
      [] sample_type = "Integral" /\ dim = "Cubemap" -> "ICubemap"
      [] sample_type = "Unsigned" /\ dim = "Cubemap" -> "UICubemap"
      [] sample_type = "Floating" /\ dim = "Cubemap" -> "Cubemap"

\* Uniformable<&BoundBuffer>::ty
BoundBuffer_ty == "BufferBinding"

\* Fault: the texture-unit enum (GL_TEXTURE0 + unit) is written, not the unit index.
BoundTexture_update_enum(u) ==
    [ call |-> "Uniform1i", program |-> NoResource, index |-> u.index,
      value |-> 33984 + u.bound.id ]

\* gl::Uniform1i(self.index(), texture.unit as GLint)
BoundTexture_update(u) ==
    [ call |-> "Uniform1i", program |-> NoResource, index |-> u.index,
      value |-> u.bound.id ]

\* gl::UniformBlockBinding(self.program(), self.index(), buffer.binding)
BoundBuffer_update(u) ==
    [ call |-> "UniformBlockBinding", program |-> u.program, index |-> u.index,
      value |-> u.bound.id ]

Uniformable_ty ==
    /\ uniforms # << >>
    /\ uniforms' =
          <<[uniforms[1] EXCEPT !.ty =
                IF uniforms[1].bound.ty = "texture"
                THEN <<BoundTexture_ty(uniforms[1].bound.sample_type, uniforms[1].bound.dim)>>
                ELSE <<BoundBuffer_ty>>]>>
    /\ UNCHANGED <<pipeline_vars, built, buf>>

Uniformable_update ==
    /\ uniforms # << >>
    /\ uniforms' =
          <<[uniforms[1] EXCEPT !.gl =
                IF uniforms[1].bound.ty = "texture"
                THEN <<BoundTexture_update(uniforms[1])>>
                ELSE <<BoundBuffer_update(uniforms[1])>>]>>
    /\ UNCHANGED <<pipeline_vars, built, buf>>

\* In a shade body or below, a uniform of the running program is updated with a
\* handle the caller holds: uniform.update(&bound).
Uniform_update(i, index) ==
    /\ Len(scopes) >= 2
    /\ i \in 1..Len(LiveHandles)
    /\ LET u == Uniform(scopes[2].program, index, LiveHandles[i])
       IN  uniforms' =
             <<[u EXCEPT !.gl = IF u.bound.ty = "texture"
                                THEN <<BoundTexture_update(u)>>
                                ELSE <<BoundBuffer_update(u)>>]>>
    /\ UNCHANGED <<pipeline_vars, built, buf>>

\* ------------------------------------------------------------------ Program

\* The uniform interface types Uni, the environments E, the errors P::Err.
UniformInterfaces == {"()", "uni_a", "uni_b"}
Envs == {"()", "env_a"}
ProgramErrors == {"err_inactive", "err_type_mismatch"}
ProgramWarnings == {<< >>, <<"warn_unused">>}

\* A program: its GPU handle and its uniform interface.
ShaderProgram(handle, uni) == [handle |-> handle, uni |-> uni]

BuiltProgram(prog, warnings) == [program |-> prog, warnings |-> warnings]
AdaptationFailure(prog, error) == [program |-> prog, error |-> error]

\* The results Q::uniform_interface(builder, env) can have: the impl for () is
\* Ok(()) whatever the environment; another interface is generated or fails.
uniform_interface(uni, env) ==
    IF uni = "()" THEN {Ok(uni)}
    ELSE {Ok(uni)} \cup {Err(e) : e \in ProgramErrors}

\* Fault: the failure carries the program with the interface that was asked for.
adapt_env_loses_former(self, uni, env, generated, warnings) ==
    IF generated[1] = "Ok"
    THEN Ok(BuiltProgram(ShaderProgram(self.handle, generated[2]), warnings))
    ELSE Err(AdaptationFailure(ShaderProgram(self.handle, uni), generated[2]))

\* Program::adapt_env, with the result of the generation of the new interface.
adapt_env(self, uni, env, generated, warnings) ==
    IF generated[1] = "Ok"
    THEN Ok(BuiltProgram(ShaderProgram(self.handle, generated[2]), warnings))
    ELSE Err(AdaptationFailure(self, generated[2]))

\* Program::adapt: Program::adapt_env(self, ())
adapt(self, uni, generated, warnings) == adapt_env(self, uni, "()", generated, warnings)

\* Program::readapt_env: Program::adapt_env(self, env), the interface type kept
readapt_env(self, env, generated, warnings) == adapt_env(self, self.uni, env, generated, warnings)

\* The caller gives its program away and owns the program of the result.
Adapted(call, uni, env, r) ==
    /\ built' = <<[ program |-> r[2].program, former |-> <<built[1].program>>,
                    call |-> <<[method |-> call, uni |-> uni, env |-> env]>>,
                    result |-> <<r>> ]>>
    /\ UNCHANGED <<pipeline_vars, uniforms, buf>>

Program_adapt_env(uni, env) ==
    /\ built # << >>
    /\ \E g \in uniform_interface(uni, env), w \in ProgramWarnings :
          Adapted("adapt_env", uni, env, adapt_env(built[1].program, uni, env, g, w))

Program_adapt(uni) ==
    /\ built # << >>
    /\ \E g \in uniform_interface(uni, "()"), w \in ProgramWarnings :
          Adapted("adapt", uni, "()", adapt(built[1].program, uni, g, w))

Program_readapt_env(env) ==
    /\ built # << >>
    /\ \E g \in uniform_interface(built[1].program.uni, env), w \in ProgramWarnings :
          Adapted("readapt_env", built[1].program.uni, env,
                  readapt_env(built[1].program, env, g, w))

\* ------------------------------------------------------------------ Buffer

\* The items T of a buffer, and the slices &[T] of up to n items.
Items == {"x", "y", "z"}
Slices(n) == UNION { [1..k -> Items] : k \in 0..n }

\* Fault: the items that fit are written before the length is found wrong.
write_whole_writes_first(content, values) ==
    IF Len(values) < Len(content)
    THEN [ content |-> values \o SubSeq(content, Len(values) + 1, Len(content)),
           result |-> Err("TooFewValues") ]
    ELSE IF Len(values) > Len(content)
    THEN [ content |-> SubSeq(values, 1, Len(content)), result |-> Err("TooManyValues") ]
    ELSE [ content |-> values, result |-> Ok("()") ]

\* Buffer::write_whole on a buffer holding content.
write_whole(content, values) ==
    IF Len(values) < Len(content)
    THEN [ content |-> content, result |-> Err("TooFewValues") ]
    ELSE IF Len(values) > Len(content)
    THEN [ content |-> content, result |-> Err("TooManyValues") ]
    ELSE [ content |-> values, result |-> Ok("()") ]

Buffer_write_whole(values) ==
    /\ buf # << >>
    /\ LET r == write_whole(buf[1].content, values)
       IN  buf' = <<[ content |-> r.content, before |-> buf[1].content,
                      values |-> <<values>>, result |-> <<r.result>> ]>>
    /\ UNCHANGED <<pipeline_vars, uniforms, built>>

\* ------------------------------------------------------------------ specification

\* The state after Builder::new on a context whose GraphicsState is one of priors.
InitPipeline(priors) ==
    /\ next_texture_unit = BindingStackNew.next_texture_unit
    /\ free_texture_units = BindingStackNew.free_texture_units
    /\ next_buffer_binding = BindingStackNew.next_buffer_binding
    /\ free_buffer_bindings = BindingStackNew.free_buffer_bindings
    /\ gfx \in priors
    /\ driver = [viewport |-> <<0, 0, 0, 0>>, clear_color |-> <<0, 0, 0, 0>>,
                 cleared |-> NoResource]
    /\ scopes = << >>
    /\ released = [texture |-> << >>, buffer |-> << >>]
    /\ hist = HistNew
    /\ drawn = {}
    /\ borrows = BorrowsNone

\* The pipeline alone: no uniform, program or buffer of the library is in use.
InitOver(priors) ==
    /\ InitPipeline(priors)
    /\ uniforms = << >>
    /\ built = << >>
    /\ buf = << >>

\* One call by the application, its arguments drawn from the given sets.
NextOver(textures, programs, render_states) ==
    \/ Builder_new
    \/ \E fb \in Framebuffers : Builder_pipeline(fb)
    \/ Builder_pipeline_return
    \/ \E t \in textures : Bind_texture(t)
    \/ \E b \in Buffers : Bind_buffer(b)
    \/ \E i \in 1..(MaxTextures + MaxBuffers) : Drop(i)
    \/ \E p \in programs : ShadingGate_shade(p)
    \/ ShadingGate_shade_return
    \/ \E rs \in render_states : RenderGate_render(rs)
    \/ RenderGate_render_return
    \/ \E ts \in TessSlices : TessGate_render(ts)

\* The bindings: every order of binds and drops of every texture in every scope.
Init == InitOver({GraphicsStateNew})
Next == NextOver(Textures, {"prog_a"}, {RenderState(<< >>, << >>, << >>)})
Spec == Init /\ [][Next]_vars

\* The render states and programs: every render state on every prior state.
InitRender == InitOver({GraphicsStateNew, GraphicsStateUsed})
NextRender == NextOver({"tex_a"}, Programs, RenderStates)
SpecRender == InitRender /\ [][NextRender]_vars

\* The uniforms: every bound texture type and every bound buffer, asked for its
\* uniform type and written to the uniform.
InitUniform ==
    /\ InitPipeline({GraphicsStateNew})
    /\ uniforms \in {<<Uniform(p, i, b)>> :
                        p \in {"prog_a"}, i \in UniformIndices,
                        b \in BoundTextures \cup BoundBuffers}
    /\ built = << >>
    /\ buf = << >>
NextUniform ==
    \/ Uniformable_ty
    \/ Uniformable_update
SpecUniform == InitUniform /\ [][NextUniform]_vars

\* The uniform updates: the pipeline, with the handles written to uniforms.
NextUpdate ==
    \/ NextOver({"tex_a"}, {"prog_a"}, {RenderState(<< >>, << >>, << >>)})
    \/ \E i \in 1..(MaxTextures + MaxBuffers), index \in UniformIndices :
          Uniform_update(i, index)
SpecUpdate == Init /\ [][NextUpdate]_vars

\* The programs: every chain of adaptations of a program, each one succeeding or
\* failing.
InitProgram ==
    /\ InitPipeline({GraphicsStateNew})
    /\ uniforms = << >>
    /\ built \in {<<[ program |-> ShaderProgram(h, u), former |-> << >>,
                       call |-> << >>, result |-> << >> ]>> :
                     h \in Programs, u \in UniformInterfaces}
    /\ buf = << >>
NextProgram ==
    \/ \E u \in UniformInterfaces, e \in Envs : Program_adapt_env(u, e)
    \/ \E u \in UniformInterfaces : Program_adapt(u)
    \/ \E e \in Envs : Program_readapt_env(e)
SpecProgram == InitProgram /\ [][NextProgram]_vars

\* The buffers: every slice written whole into every buffer, again and again.
InitBuffer ==
    /\ InitPipeline({GraphicsStateNew})
    /\ uniforms = << >>
    /\ built = << >>
    /\ buf \in {<<[ content |-> c, before |-> c, values |-> << >>, result |-> << >> ]>> :
                   c \in Slices(MaxLen)}
NextBuffer ==
    \E values \in Slices(MaxLen + 1) : Buffer_write_whole(values)
SpecBuffer == InitBuffer /\ [][NextBuffer]_vars

\* ------------------------------------------------------------------ properties

Kinds == {"texture", "buffer"}
FreeList(ty) == IF ty = "texture" THEN free_texture_units ELSE free_buffer_bindings
Counter(ty) == IF ty = "texture" THEN next_texture_unit ELSE next_buffer_binding
ReturnedId == Last(Top.bound).id
TextureBound == \E t \in Textures : Bind_texture(t)
BufferBound == \E b \in Buffers : Bind_buffer(b)

\* C1: for texture units and buffer bindings alike, after any binds and drops the
\* ids held by live handles and the free list are disjoint, and the ids below the
\* counter are exactly the ids of the two together: none below the counter is
\* missing from both, none at or above it is in either.
C1_AllocatedFreePartition ==
    \A ty \in Kinds :
        /\ LiveIds(ty) \cap Range(FreeList(ty)) = {}
        /\ LiveIds(ty) \cup Range(FreeList(ty)) = 0..(Counter(ty) - 1)

C1_Witness ==
    \A ty \in Kinds : LiveIds(ty) # {} /\ FreeList(ty) # << >>

\* C2: at every point of a pipeline and at every nesting level, no two live
\* BoundTexture handles carry the same unit and no two live BoundBuffer handles the
\* same binding.
C2_OneHandlePerSlot ==
    \A ty \in Kinds :
        \A i, j \in 1..Len(Live(ty)) : i # j => Live(ty)[i].id # Live(ty)[j].id

C2_Witness ==
    /\ Len(scopes) = 3
    /\ scopes[1].bound # << >> /\ scopes[2].bound # << >> /\ scopes[3].bound # << >>
    /\ Len(Live("texture")) = 2 /\ Len(Live("buffer")) = 2

\* In a recorded run: a bind that follows a drop of its kind returns the dropped
\* id; after two drops a then b, the next two binds return b then a.
ReuseRuns(h) ==
    \A ty \in Kinds :
        LET bind == "bind_" \o ty
            drop == "drop_" \o ty
        IN  /\ \A i \in 1..(Len(h) - 1) :
                   (h[i].op = drop /\ h[i + 1].op = bind) => h[i + 1].id = h[i].id
            /\ \A i \in 1..(Len(h) - 3) :
                   ( h[i].op = drop /\ h[i + 1].op = drop
                     /\ h[i + 2].op = bind /\ h[i + 3].op = bind )
                   => (h[i + 2].id = h[i + 1].id /\ h[i + 3].id = h[i].id)

\* C3: whenever the free list is not empty, a bind returns the id released most
\* recently among those still free; so bind, drop, bind returns the same id again,
\* and after drops of a then b the next two binds return b then a.
C3_LifoReuse ==
    [][ /\ (TextureBound /\ free_texture_units # << >>)
            => ReturnedId' = Last(released.texture)
        /\ (BufferBound /\ free_buffer_bindings # << >>)
            => ReturnedId' = Last(released.buffer)
        /\ ReuseRuns(hist') ]_vars

C3_Witness ==
    /\ Len(hist) = 7
    /\ hist[4].op = "drop_texture" /\ hist[5].op = "drop_texture"
    /\ hist[6].op = "bind_texture" /\ hist[7].op = "bind_texture"
    /\ hist[4].id # hist[5].id

\* C4: on a new BindingStack, N binds of one kind in a row with no drop return
\* 0, 1, ..., N-1 in that order, and the counter of the kind is N afterwards.
C4_FreshIdsAscend ==
    \A ty \in Kinds :
        (hist[1] = Event("pipeline", 0) /\ Only(Ops(hist), "bind_" \o ty))
        => /\ \A i \in 2..Len(hist) : hist[i].id = i - 2
           /\ Counter(ty) = Len(hist) - 1

C4_Witness ==
    /\ hist[1] = Event("pipeline", 0)
    /\ Len(hist) >= 3
    /\ Only(Ops(hist), "bind_buffer")

\* The run of C5 in the pipeline call that hist records: two textures bound, the
\* first handle dropped, a third texture bound.
TwoBound(h) ==
    /\ Len(h) >= 3
    /\ h[2].op = "bind_texture" /\ h[3].op = "bind_texture"
ThirdBound(h) ==
    /\ Len(h) = 5
    /\ TwoBound(h)
    /\ h[4] = Event("drop_texture", h[2].id)
    /\ h[5].op = "bind_texture"

AllocatedIn(ss) ==
    LET hs == Range(Flatten([i \in 1..Len(ss) |-> ss[i].bound]))
    IN  [ texture |-> { h.id : h \in { x \in hs : x.ty = "texture" } },
          buffer |-> { h.id : h \in { x \in hs : x.ty = "buffer" } } ]

\* What the enclosing scopes of every running body hold is what they held when
\* the body was entered.
EntryKept ==
    \A i \in 1..Len(scopes) : scopes[i].entry = AllocatedIn(SubSeq(scopes, 1, i - 1))

GateReturns == ShadingGate_shade_return \/ RenderGate_render_return

BodyStarts == Len(scopes) = 1 /\ Len(hist) = 1 /\ hist[1].op = "pipeline"

Reflects(g, rdr_st) ==
    /\ IF rdr_st.blending = << >>
       THEN g.blending_state = "Off"
       ELSE /\ g.blending_state = "On"
            /\ g.blending_equation = rdr_st.blending[1].equation
            /\ g.blending_func = <<rdr_st.blending[1].src, rdr_st.blending[1].dst>>
    /\ IF rdr_st.depth_test = << >>
       THEN g.depth_test = "Off"
       ELSE /\ g.depth_test = "On"
            /\ g.depth_test_comparison = rdr_st.depth_test[1]
    /\ IF rdr_st.face_culling = << >>
       THEN g.face_culling_state = "Off"
       ELSE /\ g.face_culling_state = "On"
            /\ g.face_culling_order = rdr_st.face_culling[1].order
            /\ g.face_culling_mode = rdr_st.face_culling[1].mode

RenderNone == RenderState(<< >>, << >>, << >>)
RenderAll == RenderState(<<BlendAdditive>>, <<"Less">>, <<CullBack>>)

\* C8: RenderGate::render takes every render state, on every prior GraphicsState,
\* and overwrites the three axes: all absent, the three flags are Off after the
\* call; all present, the three are On with exactly the parameters given.
C8_RenderOverwrites ==
    [][ /\ Running("shade") => \A rs \in RenderStates : ENABLED RenderGate_render(rs)
        /\ \A rs \in RenderStates : RenderGate_render(rs) => Reflects(gfx', rs) ]_vars

C8_Witness ==
    /\ Running("render")
    /\ Top.rdr_st = <<RenderNone>>
    /\ ~Top.noop
    /\ Reflects(gfx, RenderNone)
    /\ gfx.blending_equation = "Additive" /\ gfx.blending_func = <<"One", "One">>
    /\ gfx.depth_test_comparison = "Less" /\ gfx.face_culling_mode = "Back"

\* C9: a render state applied twice in a row leaves the GraphicsState as one
\* application left it: after render(rs) a second application changes nothing, and
\* render(rs) on a state that already is as rs asks leaves it as it is.
C9_RenderIdempotent ==
    [][ \A rs \in RenderStates :
            RenderGate_render(rs)
            => /\ ApplyRenderState(gfx', rs) = gfx'
               /\ gfx = ApplyRenderState(gfx, rs) <=> gfx' = gfx
               /\ Reflects(gfx, rs) /\ rs = RenderAll => gfx' = gfx ]_vars

C9_Witness ==
    /\ Running("render")
    /\ Top.rdr_st = <<RenderAll>>
    /\ Top.noop
    /\ Reflects(gfx, RenderAll)

\* C10: the mutations of render(rs, body) are complete before body starts: every
\* draw call issued inside body sees the GraphicsState as rs asks, with blending
\* Some(Additive, One, One) the flag On and exactly Additive, One, One.
C10_DrawSeesRenderState ==
    Running("render")
    => /\ Reflects(gfx, Top.rdr_st[1])
       /\ \A d \in drawn : Reflects(d.view, Top.rdr_st[1])

C10_Witness ==
    /\ Running("render")
    /\ Top.rdr_st[1].blending = <<BlendAdditive>>
    /\ Top.bound # << >>
    /\ \E d \in drawn :
          /\ d.view.blending_state = "On"
          /\ d.view.blending_equation = "Additive"
          /\ d.view.blending_func = <<"One", "One">>

\* The sampler of the dimension, and the uniform type of a sample kind: Integral
\* the signed variant, Unsigned the unsigned one, the others the plain sampler.
SamplerOf(dim) == IF dim = "Cubemap" THEN "Cubemap" ELSE "Sampler" \o SubSeq(dim, 4, 4) \o "D"
VariantOf(sample_type, dim) ==
    IF sample_type = "Integral" THEN "I" \o SamplerOf(dim)
    ELSE IF sample_type = "Unsigned" THEN "UI" \o SamplerOf(dim)
    ELSE SamplerOf(dim)

\* C11: the uniform type of a bound texture is fixed by (sample kind, dimension),
\* whatever the unit and the uniform: NormIntegral, NormUnsigned and Floating give
\* the plain sampler of the dimension, Integral the signed and Unsigned the unsigned
\* variant; each of the 5 x 4 combinations has its type, of its own dimension.
C11_UniformTypeTable ==
    (uniforms # << >> /\ uniforms[1].bound.ty = "texture" /\ uniforms[1].ty # << >>)
    => LET b == uniforms[1].bound
           t == uniforms[1].ty[1]
       IN  /\ t = VariantOf(b.sample_type, b.dim)
           /\ t \in { v \o SamplerOf(b.dim) : v \in {"", "I", "UI"} }
           /\ \A d \in Dims \ {b.dim} : t # VariantOf(b.sample_type, d)

C11_Witness ==
    /\ uniforms # << >>
    /\ uniforms[1].bound.sample_type = "Unsigned"
    /\ uniforms[1].bound.dim = "Dim3"
    /\ uniforms[1].bound.id = 1
    /\ uniforms[1].ty = <<"UISampler3D">>

\* C12: Pipeline::bind returns Ok with a handle in every allocator state: with a
\* body running, the bind of every texture and of every buffer can be taken whatever
\* the counters, the free lists and the handles already live, and each bind leaves
\* the calling body with one more handle, of the kind bound and of the id allocated.
C12_BindAlwaysOk ==
    [][ /\ (scopes # << >> /\ Len(Live("texture")) < MaxTextures)
           => \A t \in Textures : ENABLED Bind_texture(t)
        /\ (scopes # << >> /\ Len(Live("buffer")) < MaxBuffers)
           => \A b \in Buffers : ENABLED Bind_buffer(b)
        /\ \A ty \in Kinds :
              (IF ty = "texture" THEN TextureBound ELSE BufferBound)
              => /\ Len(Live(ty))' = Len(Live(ty)) + 1
                 /\ Len(Top.bound)' = Len(Top.bound) + 1
                 /\ LiveIds(ty)' \subseteq 0..(Counter(ty)' - 1) ]_vars

C12_Witness ==
    /\ Running("render")
    /\ Len(Top.bound) = 2
    /\ next_texture_unit = MaxTextures /\ free_texture_units = << >>
    /\ next_buffer_binding = MaxBuffers /\ Len(free_buffer_bindings) = 1
    /\ Len(Live("buffer")) = 1

\* The id the allocator of a kind hands out next: the top of the free list, or the
\* counter when the list is empty.
NextId(ty) == IF FreeList(ty) # << >> THEN Last(FreeList(ty)) ELSE Counter(ty)

\* C13: when Pipeline::bind(texture) returns the handle of unit u, the GraphicsState
\* has u as the active texture unit and the texture bound at unit u, and what is
\* bound at the other units, the previously active one included, is as before.
C13_TextureBoundEagerly ==
    [][ \A t \in Textures :
            Bind_texture(t)
            => LET h == Last(Top.bound)'
               IN  /\ h = Handle("texture", NextId("texture"), t)
                   /\ gfx'.current_texture_unit = h.id
                   /\ gfx'.bound_textures[h.id] = t
                   /\ \A u \in DOMAIN gfx.bound_textures \ {h.id} :
                         gfx'.bound_textures[u] = gfx.bound_textures[u] ]_vars

C13_Witness ==
    /\ Len(Live("texture")) = 2
    /\ gfx.current_texture_unit = 1
    /\ gfx.bound_textures[0] = "tex_a"
    /\ gfx.bound_textures[1] = "tex_b"
    /\ Last(LiveHandles) = Handle("texture", 1, "tex_b")

\* C14: when Pipeline::bind(buffer) returns the handle of binding b, b is the index
\* the allocator just handed out and the GraphicsState has the buffer as the base
\* binding at b; the other bindings are as before.
C14_BufferBoundEagerly ==
    [][ \A b \in Buffers :
            Bind_buffer(b)
            => LET h == Last(Top.bound)'
               IN  /\ h = Handle("buffer", NextId("buffer"), b)
                   /\ gfx'.bound_uniform_buffers[h.id] = b
                   /\ \A i \in DOMAIN gfx.bound_uniform_buffers \ {h.id} :
                         gfx'.bound_uniform_buffers[i] = gfx.bound_uniform_buffers[i] ]_vars

C14_Witness ==
    /\ Len(Live("buffer")) = 1
    /\ Last(LiveHandles) = Handle("buffer", 1, "buf_a")
    /\ gfx.bound_uniform_buffers[1] = "buf_a"
    /\ free_buffer_bindings = <<0>>

\* C15: a slot id returns to the free list only by the drop of its handle: the ids
\* a step adds to a free list are ids of handles dropped in that step, once each;
\* the id of a handle that stays live is not on the free list and is not the id a
\* bind returns, whatever other binds and drops happen.
C15_FreedOnlyByDrop ==
    [][ \A ty \in Kinds :
          /\ Range(FreeList(ty)') \ Range(FreeList(ty)) \subseteq LiveIds(ty) \ LiveIds(ty)'
          /\ Len(FreeList(ty)') + Len(Live(ty)') = Counter(ty)'
          /\ LiveIds(ty) \cap LiveIds(ty)' \cap Range(FreeList(ty)') = {}
          /\ (IF ty = "texture" THEN TextureBound ELSE BufferBound)
             => ReturnedId' \notin LiveIds(ty) ]_vars

C15_Witness ==
    /\ Len(hist) = 9
    /\ hist[2].op = "bind_buffer" /\ hist[4].op = "bind_buffer"
    /\ hist[7].op = "drop_buffer" /\ hist[8].op = "shade_return"
    /\ hist[9] = Event("bind_buffer", hist[4].id)
    /\ Live("buffer") = <<Handle("buffer", hist[2].id, "buf_a"),
                          Handle("buffer", hist[4].id, "buf_a")>>

\* C16: shade(p, body) makes p the active program before body starts; p is the
\* active program throughout body and at every draw call in it; the return of shade
\* leaves p active, and the active program changes only by a later shade call.
C16_ShadeProgramActive ==
    [][ /\ \A p \in Programs :
              ShadingGate_shade(p) => gfx'.current_program = p /\ Top'.program = p
        /\ Len(scopes) >= 2 => gfx.current_program = scopes[2].program
        /\ Running("render") => \A d \in drawn : d.view.program = scopes[2].program
        /\ ShadingGate_shade_return => gfx'.current_program = Top.program
        /\ gfx'.current_program # gfx.current_program
           => \E p \in Programs : ShadingGate_shade(p) ]_vars

C16_Witness ==
    /\ Running("pipeline")
    /\ gfx.current_program = "prog_b"
    /\ gfx.blending_state = "On" /\ gfx.blending_equation = "Additive"
    /\ gfx.depth_test = "Off"

\* A gate is called: Builder::pipeline, ShadingGate::shade or RenderGate::render.
GateCalled ==
    \/ \E fb \in Framebuffers : Builder_pipeline(fb)
    \/ \E p \in Programs : ShadingGate_shade(p)
    \/ \E rs \in RenderStates : RenderGate_render(rs)

\* C17: Builder::pipeline has bound the framebuffer, set the viewport to its size and
\* cleared it when its body starts; every gate call enters its body once, in the
\* step that makes the gate's mutation, and the body is that of the gate called;
\* inside the innermost body the mutations of all enclosing gates are in place.
C17_MutationsBeforeBody ==
    [][ /\ \A fb \in Framebuffers :
              Builder_pipeline(fb)
              => /\ gfx'.bound_draw_framebuffer = fb
                 /\ driver'.viewport = <<0, 0>> \o FramebufferDim(fb)
                 /\ driver'.clear_color = ClearColor
                 /\ driver'.cleared = fb
                 /\ Top'.kind = "pipeline"
        /\ GateCalled
           => /\ Len(scopes') = Len(scopes) + 1
              /\ SubSeq(scopes', 1, Len(scopes)) = scopes
              /\ Top'.bound = << >>
        /\ \A p \in Programs : ShadingGate_shade(p) => Top'.kind = "shade"
        /\ \A rs \in RenderStates : RenderGate_render(rs) => Top'.kind = "render"
        /\ scopes # << >>
           => /\ gfx.bound_draw_framebuffer \in Framebuffers
              /\ driver.cleared = gfx.bound_draw_framebuffer
              /\ driver.viewport = <<0, 0>> \o FramebufferDim(gfx.bound_draw_framebuffer)
        /\ Len(scopes) >= 2 => gfx.current_program = scopes[2].program
        /\ Len(scopes) = 3 => Reflects(gfx, scopes[3].rdr_st[1]) ]_vars

C17_Witness ==
    /\ Len(scopes) = 3
    /\ gfx.bound_draw_framebuffer = "fb_a"
    /\ driver.viewport = <<0, 0, 960, 540>>
    /\ driver.cleared = "fb_a"
    /\ gfx.current_program = "prog_b"
    /\ Top.rdr_st = <<RenderAll>>
    /\ gfx.depth_test = "On"
    /\ gfx.bound_uniform_buffers[0] = "buf_a"
    /\ drawn # {}

C19_WriteWholeChecksLength ==
    (buf # << >> /\ buf[1].result # << >>)
    => LET values == buf[1].values[1]
           result == buf[1].result[1]
       IN  /\ Len(values) < Len(buf[1].before) => result = Err("TooFewValues")
           /\ Len(values) > Len(buf[1].before) => result = Err("TooManyValues")
           /\ Len(values) = Len(buf[1].before)
              => result = Ok("()") /\ buf[1].content = values
           /\ result[1] = "Err" => buf[1].content = buf[1].before
           /\ Len(buf[1].content) = Len(buf[1].before)

C19_Witness ==
    /\ buf # << >>
    /\ buf[1].values = << <<"y">> >>
    /\ buf[1].result = <<Err("TooFewValues")>>
    /\ buf[1].content = <<"x", "y">>

\* C20: on one BindingStack each counter never decreases; it changes only in a bind
\* of its kind made with that kind's free list empty, by exactly one, and the id
\* returned is the value it had; a bind with a free id and every drop leave it.
C20_CounterAdvancesOnlyOnFreshBind ==
    [][ Builder_new
        \/ \A ty \in Kinds :
              LET bound == IF ty = "texture" THEN TextureBound ELSE BufferBound
              IN  /\ Counter(ty)' >= Counter(ty)
                  /\ Counter(ty)' # Counter(ty)
                     => /\ bound
                        /\ FreeList(ty) = << >>
                        /\ Counter(ty)' = Counter(ty) + 1
                        /\ ReturnedId' = Counter(ty)
                        /\ FreeList(ty)' = << >>
                  /\ (bound /\ FreeList(ty) = << >>) => Counter(ty)' = Counter(ty) + 1
                  /\ (bound /\ FreeList(ty) # << >>) => Counter(ty)' = Counter(ty) ]_vars

C20_Witness ==
    /\ hist[1] = Event("pipeline", 0)
    /\ Len(hist) = 4
    /\ hist[2] = Event("bind_buffer", 0)
    /\ hist[3] = Event("drop_buffer", 0)
    /\ hist[4] = Event("bind_buffer", 0)
    /\ next_buffer_binding = 1
    /\ free_buffer_bindings = << >>

\* Every live BoundTexture has its texture at its unit in the GraphicsState.
LiveTexturesBound ==
    \A h \in Range(Live("texture")) : gfx.bound_textures[h.id] = h.resource

\* C21: while a BoundTexture of unit u is live, the texture at unit u in the
\* GraphicsState is the one the handle was made for; a bind, at any nesting level,
\* changes nothing of the GraphicsState but the unit it returns, the active-unit
\* selector and, for a buffer, its binding; it never rebinds the unit of a live handle.
C21_LiveTextureStaysBound ==
    [][ /\ LiveTexturesBound /\ LiveTexturesBound'
        /\ (TextureBound \/ BufferBound)
           => /\ \A u \in LiveIds("texture") : gfx'.bound_textures[u] = gfx.bound_textures[u]
              /\ \A u \in DOMAIN gfx.bound_textures :
                    gfx'.bound_textures[u] # gfx.bound_textures[u]
                    => TextureBound /\ u = ReturnedId'
              /\ [gfx' EXCEPT !.bound_textures = gfx.bound_textures,
                              !.current_texture_unit = gfx.current_texture_unit,
                              !.bound_uniform_buffers = gfx.bound_uniform_buffers] = gfx ]_vars

C21_Witness ==
    /\ Len(scopes) = 3
    /\ scopes[1].bound = <<Handle("texture", 0, "tex_a")>>
    /\ scopes[2].bound = <<Handle("buffer", 0, "buf_a")>>
    /\ scopes[3].bound = <<Handle("texture", 1, "tex_b")>>
    /\ gfx.bound_textures[0] = "tex_a" /\ gfx.bound_textures[1] = "tex_b"
    /\ gfx.current_texture_unit = 1

NoDuplicates(s) == \A i, j \in 1..Len(s) : i # j => s[i] # s[j]

\* C22: a drop appends the handle's id to the end of the free list of its kind
\* whatever the id and the stack: on every stack the program reaches, the drop of
\* an id that is below the counter or not, outstanding or not, already free or not,
\* gives the list with that id appended; the drops the program makes do so, and the
\* free lists have no duplicate because each handle is dropped once.
C22_DropPushesUnconditionally ==
    [][ /\ \A id \in 0..MaxTextures :
              BoundTexture_drop(CurrentStack, id)
                = [CurrentStack EXCEPT !.free_texture_units = free_texture_units \o <<id>>]
        /\ \A id \in 0..MaxBuffers :
              BoundBuffer_drop(CurrentStack, id)
                = [CurrentStack EXCEPT !.free_buffer_bindings = free_buffer_bindings \o <<id>>]
        /\ \A i \in 1..(MaxTextures + MaxBuffers) :
              Drop(i)
              => IF Top.bound[i].ty = "texture"
                 THEN free_texture_units' = free_texture_units \o <<Top.bound[i].id>>
                 ELSE free_buffer_bindings' = free_buffer_bindings \o <<Top.bound[i].id>>
        /\ \A ty \in Kinds : NoDuplicates(FreeList(ty)) ]_vars

C22_Witness ==
    /\ free_buffer_bindings = <<1, 0>>
    /\ next_buffer_binding = 2
    /\ free_texture_units = <<0>>
    /\ LiveIds("texture") = {1}
    /\ Running("shade")

\* C23: shade, render and the draw of TessGate::render leave both counters and both
\* free lists as they are; when the body of shade or render returns, the stack
\* changes by the drops of the handles the body still holds and by nothing else: a
\* body holding none leaves the stack unchanged.
C23_GatesKeepStack ==
    [][ /\ ( \/ \E p \in Programs : ShadingGate_shade(p)
             \/ \E rs \in RenderStates : RenderGate_render(rs)
             \/ \E ts \in TessSlices : TessGate_render(ts) )
           => CurrentStack' = CurrentStack
        /\ GateReturns
           => /\ CurrentStack' = DropAll(CurrentStack, Reverse(Top.bound))
              /\ next_texture_unit' = next_texture_unit
              /\ next_buffer_binding' = next_buffer_binding
              /\ Top.bound = << >> => CurrentStack' = CurrentStack ]_vars

C23_Witness ==
    /\ Running("render")
    /\ drawn # {}
    /\ Top.bound = << >>
    /\ scopes[2].bound = << >>
    /\ next_texture_unit = 2 /\ free_texture_units = <<1>>
    /\ next_buffer_binding = 1 /\ free_buffer_bindings = << >>

\* C24: the update of a uniform with a bound handle passes the driver the id stored
\* in the handle: Uniform1i(index, unit) for a BoundTexture, UniformBlockBinding(
\* program, index, binding) for a BoundBuffer; when the update is made the handle is
\* live, so the id is allocated to it: it is no free id and below the counter.
C24_UpdateWritesSlot ==
    [][ \A i \in 1..(MaxTextures + MaxBuffers), index \in UniformIndices :
            Uniform_update(i, index)
            => LET h == LiveHandles[i]
                   gl == uniforms'[1].gl[1]
               IN  /\ gl.value = h.id
                   /\ gl.index = index
                   /\ h.ty = "texture" => gl.call = "Uniform1i"
                   /\ h.ty = "buffer"
                      => gl.call = "UniformBlockBinding" /\ gl.program = scopes[2].program
                   /\ gl.value \in LiveIds(h.ty)
                   /\ gl.value \notin Range(FreeList(h.ty))
                   /\ gl.value < Counter(h.ty) ]_vars

C24_Witness ==
    /\ uniforms # << >>
    /\ uniforms[1].gl # << >>
    /\ uniforms[1].gl[1] = [ call |-> "Uniform1i", program |-> NoResource,
                             index |-> 1, value |-> 1 ]
    /\ uniforms[1].bound \in Range(LiveHandles)
    /\ free_texture_units = <<0>>

\* C25: the drop of a BoundTexture or BoundBuffer changes the free list of its kind
\* and nothing else: the GraphicsState is as before (the texture still bound at the
\* released unit, the active unit and the buffer bindings unchanged), and so are the
\* counters and the free list of the other kind; so it is for the drops made when a
\* body returns.
C25_DropChangesOnlyFreeList ==
    [][ /\ \A i \in 1..(MaxTextures + MaxBuffers) :
              Drop(i)
              => /\ gfx' = gfx
                 /\ driver' = driver
                 /\ next_texture_unit' = next_texture_unit
                 /\ next_buffer_binding' = next_buffer_binding
                 /\ Top.bound[i].ty = "texture"
                    => /\ free_buffer_bindings' = free_buffer_bindings
                       /\ free_texture_units' # free_texture_units
                       /\ gfx'.bound_textures[Top.bound[i].id] = Top.bound[i].resource
                 /\ Top.bound[i].ty = "buffer"
                    => /\ free_texture_units' = free_texture_units
                       /\ free_buffer_bindings' # free_buffer_bindings
                       /\ gfx'.bound_uniform_buffers[Top.bound[i].id] = Top.bound[i].resource
        /\ (GateReturns \/ Builder_pipeline_return)
           => /\ gfx' = gfx
              /\ next_texture_unit' = next_texture_unit
              /\ next_buffer_binding' = next_buffer_binding ]_vars

C25_Witness ==
    /\ Running("shade")
    /\ LiveHandles = << >>
    /\ free_texture_units = <<1, 0>>
    /\ gfx.bound_textures[0] = "tex_a" /\ gfx.bound_textures[1] = "tex_b"
    /\ gfx.current_texture_unit = 1
    /\ gfx.bound_uniform_buffers[0] = "buf_a"
    /\ free_buffer_bindings = <<0>>

\* The part of the GraphicsState each axis of a render state owns.
BlendingOf(g) == <<g.blending_state, g.blending_equation, g.blending_func>>
DepthOf(g) == <<g.depth_test, g.depth_test_comparison>>
CullingOf(g) == <<g.face_culling_state, g.face_culling_order, g.face_culling_mode>>

\* C26: in RenderGate::render each axis sets its own part of the GraphicsState from
\* its own option alone: two render states that agree on an axis leave that axis the
\* same, whatever their other axes; an absent axis turns its flag Off and keeps the
\* parameters stored before (equation and factors, comparison, order and mode);
\* nothing outside the three axes changes.
C26_AxesIndependent ==
    [][ \A rs \in RenderStates :
            RenderGate_render(rs)
            => /\ \A other \in RenderStates :
                    LET g == ApplyRenderState(gfx, other)
                    IN  /\ other.blending = rs.blending => BlendingOf(g) = BlendingOf(gfx')
                        /\ other.depth_test = rs.depth_test => DepthOf(g) = DepthOf(gfx')
                        /\ other.face_culling = rs.face_culling
                           => CullingOf(g) = CullingOf(gfx')
               /\ rs.blending = << >>
                  => gfx'.blending_state = "Off"
                     /\ gfx'.blending_equation = gfx.blending_equation
                     /\ gfx'.blending_func = gfx.blending_func
               /\ rs.depth_test = << >>
                  => gfx'.depth_test = "Off"
                     /\ gfx'.depth_test_comparison = gfx.depth_test_comparison
               /\ rs.face_culling = << >>
                  => gfx'.face_culling_state = "Off"
                     /\ gfx'.face_culling_order = gfx.face_culling_order
                     /\ gfx'.face_culling_mode = gfx.face_culling_mode
               /\ [gfx' EXCEPT !.blending_state = gfx.blending_state,
                               !.blending_equation = gfx.blending_equation,
                               !.blending_func = gfx.blending_func,
                               !.depth_test = gfx.depth_test,
                               !.depth_test_comparison = gfx.depth_test_comparison,
                               !.face_culling_state = gfx.face_culling_state,
                               !.face_culling_order = gfx.face_culling_order,
                               !.face_culling_mode = gfx.face_culling_mode] = gfx ]_vars

C26_Witness ==
    /\ Running("render")
    /\ Top.rdr_st = <<RenderState(<<BlendAdditive>>, << >>, << >>)>>
    /\ BlendingOf(gfx) = <<"On", "Additive", <<"One", "One">>>>
    /\ DepthOf(gfx) = <<"Off", "Always">>
    /\ CullingOf(gfx) = <<"Off", "CW", "Front">>

\* C27: texture units and buffer bindings are two independent allocators: binding or
\* dropping a texture leaves the buffer counter and free list as they were, binding
\* or dropping a buffer leaves the texture counter and free list as they were, and a
\* live texture handle and a live buffer handle may hold the same numeric id.
C27_IndependentAllocators ==
    [][ /\ TextureBound
           => /\ next_buffer_binding' = next_buffer_binding
              /\ free_buffer_bindings' = free_buffer_bindings
              /\ LiveIds("buffer")' = LiveIds("buffer")
              /\ Last(Top.bound').id
                    = IF free_texture_units # << >> THEN Last(free_texture_units)
                                                    ELSE next_texture_unit
        /\ BufferBound
           => /\ next_texture_unit' = next_texture_unit
              /\ free_texture_units' = free_texture_units
              /\ LiveIds("texture")' = LiveIds("texture")
              /\ Last(Top.bound').id
                    = IF free_buffer_bindings # << >> THEN Last(free_buffer_bindings)
                                                      ELSE next_buffer_binding
        /\ \A i \in 1..(MaxTextures + MaxBuffers) :
              Drop(i)
              => /\ Top.bound[i].ty = "texture"
                    => /\ next_buffer_binding' = next_buffer_binding
                       /\ free_buffer_bindings' = free_buffer_bindings
                 /\ Top.bound[i].ty = "buffer"
                    => /\ next_texture_unit' = next_texture_unit
                       /\ free_texture_units' = free_texture_units ]_vars

\* A texture and a buffer are live with the same id, twice over: ids 0 and 1 are
\* each held by a texture and by a buffer at once.
C27_Witness ==
    /\ LiveIds("texture") = {0, 1}
    /\ LiveIds("buffer") = {0, 1}
    /\ next_texture_unit = 2
    /\ next_buffer_binding = 2

\* The number of handles of a kind that are live.
InUse(ty) == Len(Live(ty))
Max(a, b) == IF a >= b THEN a ELSE b

\* C28: on one BindingStack the counter of a kind is the high-water mark of the
\* handles of that kind live at once: it is 0 on a new stack, and after every step it
\* is the larger of what it was and the number of handles then live, so it never
\* decreases and equals the largest number ever live at once; it advances only when
\* the free list is empty and every id below it is held by a live handle.
C28_HighWaterMark ==
    [][ \A ty \in Kinds :
            /\ Builder_new => Counter(ty)' = 0 /\ InUse(ty)' = 0
            /\ ~Builder_new => Counter(ty)' = Max(Counter(ty), InUse(ty)')
            /\ Counter(ty)' > Counter(ty)
               => /\ FreeList(ty) = << >>
                  /\ LiveIds(ty) = 0..(Counter(ty) - 1)
                  /\ InUse(ty) = Counter(ty)
                  /\ Counter(ty)' = Counter(ty) + 1 ]_vars

\* Two textures were live at once, both were dropped and one is bound again: one
\* handle is live and the counter is still at the mark of two.
C28_Witness ==
    /\ Len(hist) = 6
    /\ Ops(hist) = <<"bind_texture", "bind_texture", "drop_texture", "drop_texture",
                     "bind_texture">>
    /\ InUse("texture") = 1
    /\ next_texture_unit = 2
    /\ Len(free_texture_units) = 1

\* C29: wherever the caller's code runs (inside the body of pipeline, shade or
\* render, after a bind returned, after a drop), neither the RefCell of the
\* BindingStack nor the RefCell of the GraphicsState is mutably borrowed, and no
\* borrow_mut has found its cell borrowed: the double-borrow panic is unreachable.
C29_NoBorrowAcrossBody ==
    /\ ~borrows.panicked
    /\ ~borrows.binding_stack
    /\ ~borrows.state

\* Inside a render body, itself inside a shade body: a texture bound in the pipeline
\* body is live, the render body has bound a handle of its own and dropped another.
C29_Witness ==
    /\ Running("render")
    /\ Len(scopes) = 3
    /\ scopes[1].bound # << >>
    /\ Top.bound # << >>
    /\ free_texture_units # << >>
    /\ borrows = BorrowsNone

====
